---- MODULE Spec2Model ----
(***************************************************************************)
(* Model of the 2kratings.com scraper (src/jina_scraper.py).               *)
(*                                                                         *)
(* Text is modelled as a sequence of atoms.  An atom is either one         *)
(* character that the regular expressions of the source distinguish (a     *)
(* digit, "+", "-", " ", "\n", "*", "(", ")", "[", "]") or one literal     *)
(* that the source searches for as a whole ("Title:", "####",              *)
(* "legendary-sum.png)", "Outside Scoring", ...); no literal begins or     *)
(* ends with a blank, the blank is an atom of its own.  Every regular      *)
(* expression of the source is an operator over atom sequences that        *)
(* computes the match the Python `re` engine computes (leftmost, greedy,   *)
(* with the backtracking that can change the outcome written out).         *)
(* Positions are 1-based; 0 stands for Python's "not found" (-1 / None     *)
(* match).  Python integers are unbounded.                                 *)
(***************************************************************************)
EXTENDS Integers, Sequences, FiniteSets, TLC

VARIABLES
    pc,           \* position of search_player: "idle", "fetch", "sleep", "done"
    player_name,  \* argument of search_player
    idx,          \* index of the for loop over url_patterns (1-based)
    attempts,     \* the session.get calls made so far: [url, resp]
    sleeps,       \* number of time.sleep(1) calls made so far
    result,       \* return value of search_player (a list), None before return
    fn,           \* pure-function runs: which function is applied
    doc,          \* pure-function runs: the markdown document given to it
    out,          \* pure-function runs: its return value, None before the call
    jina_api_key, \* os.getenv('JINA_API_KEY') after load_dotenv(): None or a text
    scraper,      \* the JinaNBA2KScraper object, None while there is none
    loading_msg,  \* what the message of the !player command shows, None if unsent
    parse_calls   \* the calls of parse_player_page so far: [html_content, url]

vars == <<pc, player_name, idx, attempts, sleeps, result, fn, doc, out,
          jina_api_key, scraper, loading_msg, parse_calls>>

\* Optional values: None is the empty tuple, a present value v is <<v>>
None == <<>>

Some(v) == <<v>>

(***************************************************************************)
(* Character classes of the regular expressions.                           *)
(***************************************************************************)
Digits == {"0", "1", "2", "3", "4", "5", "6", "7", "8", "9"}

Signs == {"+", "-"}

Whitespace == {" ", "\n", "\r", "\t"}

Newlines == {"\n"}

NewlinesCR == {"\n", "\r"}

Min(a, b) == IF a < b THEN a ELSE b

Drop(s, n) == SubSeq(s, n + 1, Len(s))

\* first position q >= p with s[q] outside class C (Len(s)+1 if none):
\* the end of a greedy run C* started at p
RunIn(s, p, C) ==
    CHOOSE q \in p..(Len(s) + 1) :
        /\ \A j \in p..(q - 1) : s[j] \in C
        /\ (q = Len(s) + 1 \/ s[q] \notin C)

\* the end of a greedy run [^C]* started at p
RunNotIn(s, p, C) ==
    CHOOSE q \in p..(Len(s) + 1) :
        /\ \A j \in p..(q - 1) : s[j] \notin C
        /\ (q = Len(s) + 1 \/ s[q] \in C)

\* str.find(atom): first position of the atom, 0 when absent
find(s, a) ==
    IF \E i \in 1..Len(s) : s[i] = a
    THEN CHOOSE i \in 1..Len(s) : s[i] = a /\ \A j \in 1..(i - 1) : s[j] # a
    ELSE 0

\* the `in` operator of str
Contains(s, a) == \E i \in 1..Len(s) : s[i] = a

\* str.strip()
strip(s) ==
    LET b == RunIn(s, 1, Whitespace)
    IN  IF b > Len(s) THEN <<>>
        ELSE LET e == CHOOSE q \in b..Len(s) :
                          /\ s[q] \notin Whitespace
                          /\ \A j \in (q + 1)..Len(s) : s[j] \in Whitespace
             IN  SubSeq(s, b, e)

\* str.replace(old, ""), old a non-empty text: the non-overlapping occurrences
\* of old are removed, left to right
RECURSIVE remove_from(_, _, _)
remove_from(s, i, old) ==
    IF i > Len(s) THEN <<>>
    ELSE IF i + Len(old) - 1 <= Len(s) /\ SubSeq(s, i, i + Len(old) - 1) = old
         THEN remove_from(s, i + Len(old), old)
    ELSE <<s[i]>> \o remove_from(s, i + 1, old)

remove(s, old) == remove_from(s, 1, old)

DigitVal(d) ==
    CASE d = "0" -> 0 [] d = "1" -> 1 [] d = "2" -> 2 [] d = "3" -> 3
      [] d = "4" -> 4 [] d = "5" -> 5 [] d = "6" -> 6 [] d = "7" -> 7
      [] d = "8" -> 8 [] d = "9" -> 9

\* int(str) of a string of decimal digits
RECURSIVE int(_)
int(ds) ==
    IF ds = <<>> THEN 0
    ELSE 10 * int(SubSeq(ds, 1, Len(ds) - 1)) + DigitVal(ds[Len(ds)])

\* the smallest member of a non-empty set of positions
First(S) == CHOOSE p \in S : \A q \in S : p <= q

(***************************************************************************)
(* parse_player_page: identity and overall rating.                         *)
(***************************************************************************)
\* " NBA 2K25 Rating (Current"
RatingSuffix == <<" ", "NBA 2K25 Rating (Current">>

\* html_content.split("Title:")[1].split("\n")[0].strip()
title_line(html_content) ==
    LET after == Drop(html_content, find(html_content, "Title:"))
        nxt   == find(after, "Title:")
        part  == IF nxt = 0 THEN after ELSE SubSeq(after, 1, nxt - 1)
        nl    == find(part, "\n")
        line  == IF nl = 0 THEN part ELSE SubSeq(part, 1, nl - 1)
    IN  strip(line)

extract_player_name(html_content) ==
    IF Contains(html_content, "Title:")
    THEN strip(remove(remove(title_line(html_content), RatingSuffix), <<")">>))
    ELSE <<"Unknown Player">>

\* re.search(r'Overall 2K Rating of (\d+)', html_content)
rating_match(html_content) ==
    LET S == {p \in 1..Len(html_content) :
                /\ html_content[p] = "Overall 2K Rating of"
                /\ p + 2 <= Len(html_content)
                /\ html_content[p + 1] = " "
                /\ html_content[p + 2] \in Digits}
    IN  IF S = {} THEN 0 ELSE First(S)

\* the rating looked for only in a document that has a title
extract_overall_rating_in_title_block(html_content) ==
    IF Contains(html_content, "Title:") /\ rating_match(html_content) # 0
    THEN Some(int(SubSeq(html_content, rating_match(html_content) + 2,
                  RunIn(html_content, rating_match(html_content) + 2, Digits) - 1)))
    ELSE None

extract_overall_rating(html_content) ==
    IF Contains(html_content, "Overall 2K Rating of")
    THEN LET p == rating_match(html_content)
         IN  IF p # 0
             THEN Some(int(SubSeq(html_content, p + 2,
                                  RunIn(html_content, p + 2, Digits) - 1)))
             ELSE None
    ELSE None

(***************************************************************************)
(* extract_badge_info_from_markdown: tier counts, total, breakdown.        *)
(***************************************************************************)
\* re.search(rf'{tier}-sum\.png\)\s*(\d+)', content): position of the digits,
\* 0 if there is no match
tier_match(content, sum_png) ==
    LET S == {p \in 1..Len(content) :
                /\ content[p] = sum_png
                /\ LET q == RunIn(content, p + 1, Whitespace)
                   IN  q <= Len(content) /\ content[q] \in Digits}
    IN  IF S = {} THEN 0 ELSE RunIn(content, First(S) + 1, Whitespace)

\* the initial 0 of badge_info, overwritten by int(match.group(1)) on a match
tier_count(content, sum_png) ==
    LET q == tier_match(content, sum_png)
    IN  IF q # 0 THEN int(SubSeq(content, q, RunIn(content, q, Digits) - 1))
        ELSE 0

\* the sum without the legendary count
total_badges_without_legendary(legendary, hof, gold, silver, bronze) ==
    hof + gold + silver + bronze

total_badges_of(legendary, hof, gold, silver, bronze) ==
    legendary + hof + gold + silver + bronze

badge_categories ==
    {"Outside Scoring", "Inside Scoring", "Playmaking", "Defense",
     "Rebounding", "General Offense", "All Around"}

\* re.search(rf'{category} \((\d+)\)', content): position of the digits, 0 if none
cat_match(content, category) ==
    LET S == {p \in 1..Len(content) :
                /\ content[p] = category
                /\ p + 3 <= Len(content)
                /\ content[p + 1] = " "
                /\ content[p + 2] = "("
                /\ content[p + 3] \in Digits
                /\ LET e == RunIn(content, p + 3, Digits)
                   IN  e <= Len(content) /\ content[e] = ")"}
    IN  IF S = {} THEN 0 ELSE First(S) + 3

badge_breakdown_of(content) ==
    [category \in {c \in badge_categories : cat_match(content, c) # 0} |->
        LET q == cat_match(content, category)
        IN  int(SubSeq(content, q, RunIn(content, q, Digits) - 1))]

(***************************************************************************)
(* extract_individual_badges.                                              *)
(***************************************************************************)
BadgeTerminators == {"[View All Badges]", "![Image"}

\* the text reads "#### " at position p
heading_at(s, p) == p + 1 <= Len(s) /\ s[p] = "####" /\ s[p + 1] = " "

\* the lookahead (?=\n\n#### |\n\n\[View All Badges\]|\n\n!\[Image|$) at e;
\* without re.MULTILINE `$` holds at the end of the text and before a final "\n"
badge_lookahead(s, e) ==
    \/ e = Len(s) + 1
    \/ e = Len(s) /\ s[e] = "\n"
    \/ /\ e + 2 <= Len(s)
       /\ s[e] = "\n"
       /\ s[e + 1] = "\n"
       /\ (heading_at(s, e + 2) \/ s[e + 2] \in BadgeTerminators)

\* ([^\n]+(?:\n[^\n]+)*?) followed by the lookahead: e is the end of the lines
\* taken so far; the lazy repetition adds one line at a time until the
\* lookahead holds.  Returns the end of the description, 0 if there is none.
RECURSIVE description_end(_, _)
description_end(s, e) ==
    IF badge_lookahead(s, e) THEN e
    ELSE IF e + 1 <= Len(s) /\ s[e] = "\n" /\ s[e + 1] # "\n"
         THEN description_end(s, RunNotIn(s, e + 1, Newlines))
         ELSE 0

\* badge_pattern_v2 tried at position p: <<end, name, category, description>>,
\* <<0>> when the pattern does not match there
badge_match_at(s, p) ==
    LET nameEnd == RunNotIn(s, p + 2, Newlines)
        catEnd  == RunNotIn(s, nameEnd + 2, Newlines)
        d1End   == RunNotIn(s, catEnd + 1, Newlines)
    IN  IF /\ heading_at(s, p)
           /\ nameEnd > p + 2
           /\ nameEnd + 1 <= Len(s)
           /\ s[nameEnd] = "\n"
           /\ s[nameEnd + 1] = "\n"
           /\ catEnd > nameEnd + 2
           /\ catEnd <= Len(s)
           /\ s[catEnd] = "\n"
           /\ d1End > catEnd + 1
           /\ description_end(s, d1End) # 0
        THEN <<description_end(s, d1End),
               SubSeq(s, p + 2, nameEnd - 1),
               SubSeq(s, nameEnd + 2, catEnd - 1),
               SubSeq(s, catEnd + 1, description_end(s, d1End) - 1)>>
        ELSE <<0>>

\* re.findall(badge_pattern_v2, badge_section): the non-overlapping matches,
\* left to right, scanning from position p; the pattern is tried at each "#### "
RECURSIVE badge_findall(_, _)
badge_findall(s, p) ==
    LET S == {q \in p..Len(s) : heading_at(s, q)}
        m == badge_match_at(s, First(S))
    IN  IF S = {} THEN <<>>
        ELSE IF m[1] # 0
             THEN <<[name |-> m[2], category |-> m[3], description |-> m[4]]>>
                      \o badge_findall(s, m[1])
             ELSE badge_findall(s, First(S) + 1)

\* content[badge_section_start:] cut at "NBA 2K25 Hot Zones"
badge_section_of(content) ==
    LET badge_section == Drop(content, find(content, "[NBA 2K25 Badges]") - 1)
        view_all_end  == find(badge_section, "NBA 2K25 Hot Zones")
    IN  IF view_all_end # 0
        THEN SubSeq(badge_section, 1, view_all_end - 1)
        ELSE badge_section

\* re.sub(r'\n+', ' ', description)
RECURSIVE collapse_from(_, _)
collapse_from(s, i) ==
    IF i > Len(s) THEN <<>>
    ELSE IF s[i] = "\n"
         THEN <<" ">> \o collapse_from(s, RunIn(s, i, Newlines))
         ELSE <<s[i]>> \o collapse_from(s, i + 1)

collapse_newlines(s) == collapse_from(s, 1)

\* the chain with the Hall of Fame test before the Legendary test
quality_hof_first(i, badge_info) ==
    IF i < badge_info.hof_badges THEN "Hall of Fame"
    ELSE IF i < badge_info.hof_badges + badge_info.legendary_badges
         THEN "Legendary"
    ELSE IF i < badge_info.total_badges - badge_info.silver_badges
                 - badge_info.bronze_badges
         THEN "Gold"
    ELSE IF i < badge_info.total_badges - badge_info.bronze_badges THEN "Silver"
    ELSE IF i < badge_info.total_badges THEN "Bronze"
    ELSE "Unknown"

\* the if/elif chain on the 0-based position i
quality_of(i, badge_info) ==
    LET legendary_count == badge_info.legendary_badges
        hof_count       == badge_info.hof_badges
        gold_count      == badge_info.gold_badges
        silver_count    == badge_info.silver_badges
        bronze_count    == badge_info.bronze_badges
    IN  IF i < legendary_count THEN "Legendary"
        ELSE IF i < legendary_count + hof_count THEN "Hall of Fame"
        ELSE IF i < legendary_count + hof_count + gold_count THEN "Gold"
        ELSE IF i < legendary_count + hof_count + gold_count + silver_count
             THEN "Silver"
        ELSE IF i < legendary_count + hof_count + gold_count + silver_count
                     + bronze_count
             THEN "Bronze"
        ELSE "Unknown"

\* the loop guard written `i > total_badges`
badge_loop_stops_late(i, badge_info) == i > badge_info.total_badges

\* the loop without its guard
badge_loop_never_stops(i, badge_info) == FALSE

\* the loop guard: `if i >= badge_info.get('total_badges', 0): break`
badge_loop_stops(i, badge_info) == i >= badge_info.total_badges

\* the for loop over enumerate(badge_matches), from 0-based position i on
RECURSIVE badge_loop(_, _, _, _)
badge_loop(badge_matches, i, badge_info, individual_badges) ==
    IF i >= Len(badge_matches) THEN individual_badges
    ELSE IF badge_loop_stops(i, badge_info) THEN individual_badges
    ELSE badge_loop(badge_matches, i + 1, badge_info,
             Append(individual_badges,
                 [name        |-> strip(badge_matches[i + 1].name),
                  quality     |-> quality_of(i, badge_info),
                  category    |-> strip(badge_matches[i + 1].category),
                  description |->
                      strip(collapse_newlines(badge_matches[i + 1].description))]))

extract_individual_badges(content, badge_info) ==
    IF find(content, "[NBA 2K25 Badges]") = 0 THEN <<>>
    ELSE badge_loop(badge_findall(badge_section_of(content), 1), 0,
                    badge_info, <<>>)

\* the counts searched only inside the badge section: all of badge_info keeps
\* its initial value when the section marker is absent
extract_badge_info_in_section(content) ==
    LET c == IF find(content, "[NBA 2K25 Badges]") = 0 THEN <<>> ELSE content
        legendary == tier_count(c, "legendary-sum.png)")
        hof       == tier_count(c, "hof-sum.png)")
        gold      == tier_count(c, "gold-sum.png)")
        silver    == tier_count(c, "silver-sum.png)")
        bronze    == tier_count(c, "bronze-sum.png)")
        counts    == [total_badges     |-> total_badges_of(legendary, hof, gold,
                                                           silver, bronze),
                      hof_badges       |-> hof,
                      gold_badges      |-> gold,
                      silver_badges    |-> silver,
                      bronze_badges    |-> bronze,
                      legendary_badges |-> legendary,
                      badge_breakdown  |-> badge_breakdown_of(c)]
    IN  counts @@ [individual_badges |-> extract_individual_badges(c, counts)]

extract_badge_info_from_markdown(content) ==
    LET legendary == tier_count(content, "legendary-sum.png)")
        hof       == tier_count(content, "hof-sum.png)")
        gold      == tier_count(content, "gold-sum.png)")
        silver    == tier_count(content, "silver-sum.png)")
        bronze    == tier_count(content, "bronze-sum.png)")
        counts    == [total_badges     |-> total_badges_of(legendary, hof, gold,
                                                           silver, bronze),
                      hof_badges       |-> hof,
                      gold_badges      |-> gold,
                      silver_badges    |-> silver,
                      bronze_badges    |-> bronze,
                      legendary_badges |-> legendary,
                      badge_breakdown  |-> badge_breakdown_of(content)]
    IN  [total_badges      |-> counts.total_badges,
         hof_badges        |-> counts.hof_badges,
         gold_badges       |-> counts.gold_badges,
         silver_badges     |-> counts.silver_badges,
         bronze_badges     |-> counts.bronze_badges,
         legendary_badges  |-> counts.legendary_badges,
         badge_breakdown   |-> counts.badge_breakdown,
         individual_badges |-> extract_individual_badges(content, counts)]

(***************************************************************************)
(* extract_attributes_from_markdown and extract_sub_attributes.            *)
(***************************************************************************)
attribute_sections ==
    <<"Outside Scoring", "Inside Scoring", "Defense", "Athleticism",
      "Playmaking", "Rebounding">>

\* atoms of the vocabulary whose first character is in [A-Za-z\s]
AlphaSpaceStart ==
    Whitespace \cup badge_categories \cup
    {"Outside Scoring", "Inside Scoring", "Defense", "Athleticism",
     "Playmaking", "Rebounding", "Close Shot", "Mid-Range Shot", "Layup",
     "Title:", "Overall 2K Rating of", "NBA 2K25 Hot Zones", "Nikola Jokic",
     "Denver Nuggets", "Deadeye", "Limitless Range", "Shooting", "text",
     "Position:", "Team:", "Height:", "Weight:", "Wingspan:", "Archetype:",
     "legendary-sum.png)", "hof-sum.png)", "gold-sum.png)", "silver-sum.png)",
     "bronze-sum.png)", "Total Badges:", "Unknown Player", "Not Found", "C",
     "NBA 2K25 Rating (Current"}

\* the end of \d+(?:[+-]\d+)? started at the digit at q
numeral_end(s, q) ==
    LET d == RunIn(s, q, Digits)
    IN  IF d + 1 <= Len(s) /\ s[d] \in Signs /\ s[d + 1] \in Digits
        THEN RunIn(s, d + 1, Digits)
        ELSE d

\* rf'#### (\d+)(?:[+-]\d+)? {section}' tried at position p
section_match_at(s, p, section) ==
    /\ heading_at(s, p)
    /\ p + 2 <= Len(s)
    /\ s[p + 2] \in Digits
    /\ LET e == numeral_end(s, p + 2)
       IN  e + 1 <= Len(s) /\ s[e] = " " /\ s[e + 1] = section

\* re.search of the section pattern: the position of the match, 0 if none
section_match(content, section) ==
    LET S == {p \in 1..Len(content) : section_match_at(content, p, section)}
    IN  IF S = {} THEN 0 ELSE First(S)

\* section_match.end(), as the last position of the match
section_match_end(content, section) ==
    numeral_end(content, section_match(content, section) + 2) + 1

\* re.search(r'#### \d+(?:[+-]\d+)? [A-Za-z\s]+', rest).start(), 0 if none
next_section_match(rest) ==
    LET S == {p \in 1..Len(rest) :
                /\ heading_at(rest, p)
                /\ p + 2 <= Len(rest)
                /\ rest[p + 2] \in Digits
                /\ LET e == numeral_end(rest, p + 2)
                   IN  /\ e + 1 <= Len(rest)
                       /\ rest[e] = " "
                       /\ rest[e + 1] \in AlphaSpaceStart}
    IN  IF S = {} THEN 0 ELSE First(S)

\* the scan of a section not cut at the next heading
section_content_to_end(content, section) ==
    Drop(content, section_match_end(content, section))

\* the text scanned for sub-attributes of a matched section
section_content_of(content, section) ==
    LET rest == Drop(content, section_match_end(content, section))
        nxt  == next_section_match(rest)
    IN  IF nxt # 0 THEN SubSeq(rest, 1, nxt - 1) ELSE rest

\* r'\*\s*(\d+(?:[+-]\d+)?)\s+([^\n\r]+)' tried at position p:
\* <<end, value_str, name>>, <<0>> when the pattern does not match there.
\* When the blanks after the numeral run to the end of the text, \s+ gives
\* back blanks until the name group can start on one that is not a line break.
sub_attr_match_at(s, p) ==
    LET q  == RunIn(s, p + 1, Whitespace)
        e  == numeral_end(s, q)
        w  == RunIn(s, e, Whitespace)
        B  == {m \in (e + 1)..(w - 1) : s[m] \notin NewlinesCR}
        m0 == CHOOSE m \in B : \A k \in B : k <= m
    IN  IF s[p] = "*" /\ q <= Len(s) /\ s[q] \in Digits /\ w > e
        THEN IF w <= Len(s)
             THEN <<RunNotIn(s, w, NewlinesCR), SubSeq(s, q, e - 1),
                    SubSeq(s, w, RunNotIn(s, w, NewlinesCR) - 1)>>
             ELSE IF B # {}
                  THEN <<RunNotIn(s, m0, NewlinesCR), SubSeq(s, q, e - 1),
                         SubSeq(s, m0, RunNotIn(s, m0, NewlinesCR) - 1)>>
                  ELSE <<0>>
        ELSE <<0>>

\* re.findall(sub_attr_pattern, section_content), scanning from position p; the
\* pattern is tried at each "*"
RECURSIVE sub_attr_findall(_, _)
sub_attr_findall(s, p) ==
    LET S == {q \in p..Len(s) : s[q] = "*"}
        m == sub_attr_match_at(s, First(S))
    IN  IF S = {} THEN <<>>
        ELSE IF m[1] # 0
             THEN <<<<m[2], m[3]>>>> \o sub_attr_findall(s, m[1])
             ELSE sub_attr_findall(s, First(S) + 1)

\* the modifier applied to the leading numeral instead of removed
base_value_modified(value_str) ==
    LET d == RunIn(value_str, 1, Digits)
    IN  IF d > Len(value_str) THEN int(value_str)
        ELSE IF value_str[d] = "+"
             THEN int(SubSeq(value_str, 1, d - 1)) + int(Drop(value_str, d))
        ELSE int(SubSeq(value_str, 1, d - 1)) - int(Drop(value_str, d))

\* int(re.search(r'(\d+)', value_str).group(1)): the first run of digits
base_value(value_str) ==
    LET S == {p \in 1..Len(value_str) : value_str[p] \in Digits}
    IN  int(SubSeq(value_str, First(S), RunIn(value_str, First(S), Digits) - 1))

\* d[key] = val on a dict kept as the sequence of its items in insertion order
dict_set(d, key, val) ==
    IF \E i \in 1..Len(d) : d[i].name = key
    THEN [i \in 1..Len(d) |->
            IF d[i].name = key THEN [name |-> key] @@ val ELSE d[i]]
    ELSE Append(d, [name |-> key] @@ val)

\* the for loop over the matches, from match number i on
RECURSIVE sub_attr_loop(_, _, _)
sub_attr_loop(matches, i, sub_attributes) ==
    IF i > Len(matches) THEN sub_attributes
    ELSE sub_attr_loop(matches, i + 1,
             dict_set(sub_attributes, strip(matches[i][2]),
                      [value     |-> base_value(matches[i][1]),
                       raw_value |-> matches[i][1]]))

extract_sub_attributes(content, section_name) ==
    IF section_match(content, section_name) # 0
    THEN sub_attr_loop(
             sub_attr_findall(section_content_of(content, section_name), 1),
             1, <<>>)
    ELSE <<>>

\* int(match.group(1)) of the section pattern
section_rating(content, section) ==
    LET p == section_match(content, section)
    IN  int(SubSeq(content, p + 2, RunIn(content, p + 2, Digits) - 1))

extract_attributes_from_markdown(content) ==
    [section \in {attribute_sections[i] : i \in
                     {j \in 1..Len(attribute_sections) :
                         section_match(content, attribute_sections[j]) # 0}} |->
        [rating         |-> section_rating(content, section),
         sub_attributes |-> extract_sub_attributes(content, section)]]

(***************************************************************************)
(* extract_player_details_from_markdown.                                   *)
(***************************************************************************)
\* re.search(rf'{label}\s*\[([^\]]+)\]', content): <<start, end>> of the group,
\* <<0>> if there is no match
bracket_match(content, label) ==
    LET S == {p \in 1..Len(content) :
                /\ content[p] = label
                /\ LET q == RunIn(content, p + 1, Whitespace)
                       r == RunNotIn(content, q + 1, {"]"})
                   IN  /\ q <= Len(content)
                       /\ content[q] = "["
                       /\ r > q + 1
                       /\ r <= Len(content)}
    IN  IF S = {} THEN <<0>>
        ELSE LET q == RunIn(content, First(S) + 1, Whitespace)
             IN  <<q + 1, RunNotIn(content, q + 1, {"]"}) - 1>>

\* the blanks that \s* can give back to start ([^\n\r]+) when the blanks after
\* the label at p run to the end of the text
line_backtrack(content, p) ==
    {m \in (p + 1)..Len(content) : content[m] \notin NewlinesCR}

\* re.search(rf'{label}\s*([^\n\r]+)', content): <<start, end>> of the group,
\* <<0>> if there is no match
line_match(content, label) ==
    LET S == {p \in 1..Len(content) :
                /\ content[p] = label
                /\ \/ RunIn(content, p + 1, Whitespace) <= Len(content)
                   \/ line_backtrack(content, p) # {}}
    IN  IF S = {} THEN <<0>>
        ELSE LET p == First(S)
                 q == RunIn(content, p + 1, Whitespace)
                 B == line_backtrack(content, p)
                 m == CHOOSE k \in B : \A j \in B : j <= k
             IN  IF q <= Len(content)
                 THEN <<q, RunNotIn(content, q, NewlinesCR) - 1>>
                 ELSE <<m, RunNotIn(content, m, NewlinesCR) - 1>>

detail_match(content, field) ==
    CASE field = "position"  -> bracket_match(content, "Position:")
      [] field = "team"      -> bracket_match(content, "Team:")
      [] field = "height"    -> line_match(content, "Height:")
      [] field = "weight"    -> line_match(content, "Weight:")
      [] field = "wingspan"  -> line_match(content, "Wingspan:")
      [] field = "archetype" -> line_match(content, "Archetype:")

detail_fields ==
    {"position", "team", "height", "weight", "wingspan", "archetype"}

extract_player_details_from_markdown(content) ==
    [field \in {f \in detail_fields : detail_match(content, f)[1] # 0} |->
        LET m == detail_match(content, field)
        IN  strip(SubSeq(content, m[1], m[2]))]

(***************************************************************************)
(* parse_player_page.                                                      *)
(***************************************************************************)
RawContentLimit == 1000

\* the number of characters of the atoms lo..hi of a text
RECURSIVE CharLenOf(_, _, _)
CharLenOf(s, lo, hi) ==
    IF lo > hi THEN 0
    ELSE IF lo = hi THEN Len(s[lo])
    ELSE CharLenOf(s, lo, (lo + hi) \div 2)
             + CharLenOf(s, (lo + hi) \div 2 + 1, hi)

\* len() of the first n atoms of a text
CharLen(s, n) == CharLenOf(s, 1, n)

\* html_content[:1000] + "..." if len(html_content) > 1000 else html_content
\* (the cut is taken at the last atom boundary within the limit)
raw_content_of(html_content) ==
    IF CharLen(html_content, Len(html_content)) > RawContentLimit
    THEN LET k == CHOOSE n \in 0..Len(html_content) :
                      /\ CharLen(html_content, n) <= RawContentLimit
                      /\ CharLen(html_content, n + 1) > RawContentLimit
         IN  SubSeq(html_content, 1, k) \o <<"...">>
    ELSE html_content

\* No statement of the try block raises on a text: every int() is applied to
\* digits a pattern has matched, every group() to a match that was tested; so
\* the except branch (return None) is not taken.
parse_player_page(html_content, url) ==
    Some([name           |-> extract_player_name(html_content),
          url            |-> url,
          overall_rating |-> extract_overall_rating(html_content),
          badge_info     |-> extract_badge_info_from_markdown(html_content),
          attributes     |-> extract_attributes_from_markdown(html_content),
          player_details |-> extract_player_details_from_markdown(html_content),
          raw_content    |-> raw_content_of(html_content)])

(***************************************************************************)
(* scrape_url and search_player.                                           *)
(***************************************************************************)
base_url == "https://www.2kratings.com"

jina_base_url == "https://r.jina.ai"

\* str.lower() on the characters player names are drawn from
lower(name) ==
    [i \in 1..Len(name) |->
        CASE name[i] = "L" -> "l"
          [] name[i] = "J" -> "j"
          [] OTHER -> name[i]]

\* player_name.lower().replace(' ', '-')
url_name_of(name) ==
    [i \in 1..Len(name) |-> IF lower(name)[i] = " " THEN "-" ELSE lower(name)[i]]

\* url_patterns with the first two candidates exchanged
url_patterns_swapped(name) ==
    << <<base_url, "/player/">> \o url_name_of(name),
       <<base_url, "/">> \o url_name_of(name),
       <<base_url, "/players/">> \o url_name_of(name) >>

url_patterns(name) ==
    << <<base_url, "/">> \o url_name_of(name),
       <<base_url, "/player/">> \o url_name_of(name),
       <<base_url, "/players/">> \o url_name_of(name) >>

\* `if not self.jina_api_key:` on the value of os.getenv
key_missing_is_none(key) == key = None

key_missing(key) == key = None \/ key[1] = ""

\* JinaNBA2KScraper(): the ValueError it raises (exc), or the object (self)
JinaNBA2KScraper(key) ==
    IF key_missing(key)
    THEN [exc  |-> "ValueError",
          self |-> <<>>]
    ELSE [exc  |-> "",
          self |-> [jina_api_key  |-> key[1],
                    base_url      |-> base_url,
                    jina_base_url |-> jina_base_url,
                    headers       |-> [Authorization |-> <<"Bearer ", key[1]>>,
                                       ContentType   |-> "application/json"]]]

\* f"{self.jina_base_url}/{url}"
jina_url_of(url) == <<jina_base_url, "/">> \o url

\* What session.get(jina_url, timeout=30) does: it returns a response
\* (kind "response") or raises a requests.RequestException (ConnectionError,
\* Timeout).
RequestExceptions == {"ConnectionError", "Timeout"}

\* scrape_url without the test of the status code
scrape_url_any_status(resp) ==
    IF resp.kind = "response" THEN Some(resp.text) ELSE None

\* scrape_url: the text of a 200 response, None otherwise
scrape_url(resp) ==
    IF resp.kind = "response"
    THEN IF resp.status_code = 200 THEN Some(resp.text) ELSE None
    ELSE None

\* `if html_content is not None:` in place of `if html_content:`
truthy_is_not_none(html_content) == html_content # None

\* `if html_content:` on an Optional[str]
truthy(html_content) == html_content # None /\ html_content[1] # <<>>

(***************************************************************************)
(* Bounds and input sets of the search.                                    *)
(***************************************************************************)
MaxNameLen == 2

NameChars == {"L", "j", " "}

RECURSIVE SeqsUpTo(_, _)
SeqsUpTo(A, n) ==
    IF n = 0 THEN {<<>>}
    ELSE LET S == SeqsUpTo(A, n - 1)
         IN  S \cup {Append(t, a) : t \in {u \in S : Len(u) = n - 1}, a \in A}

PlayerNames == SeqsUpTo(NameChars, MaxNameLen) \ {<<>>}

\* documents the render proxy may return with status 200
MinimalDoc ==
    <<"Title:", " ", "Nikola Jokic", " ", "NBA 2K25 Rating (Current", " ",
      "Denver Nuggets", ")", "\n", "Overall 2K Rating of", " ", "9", "7">>

NotFoundDoc == <<"Not Found", "\n">>

BlankDoc == <<" ", "\n">>

RatedDoc ==
    <<"Title:", " ", "Nikola Jokic", "\n", "Overall 2K Rating of", " ", "9",
      "7", "\n", "####", " ", "9", "1", "-", "1", " ", "Outside Scoring", "\n",
      "*", " ", "9", "9", " ", "Close Shot", "\n", "![Image",
      "gold-sum.png)", "1", "\n", "\n", "[NBA 2K25 Badges]", "\n", "\n",
      "####", " ", "Deadeye", "\n", "\n", "Shooting", "\n", "text">>

SearchDocs == {MinimalDoc, NotFoundDoc, BlankDoc, RatedDoc}

Responses ==
    [kind : {"response"}, status_code : {200}, text : SearchDocs \cup {<<>>}]
    \cup [kind : {"response"}, status_code : {404, 500}, text : {NotFoundDoc}]
    \cup [kind : RequestExceptions, status_code : {0}, text : {<<>>}]

(***************************************************************************)
(* The search as a state machine.                                          *)
(***************************************************************************)
PureIdle == fn = "search_player" /\ doc = <<>> /\ out = None

\* a scraper has been constructed with a key, and no command is being served
ScraperReady ==
    /\ jina_api_key = Some("jina-key")
    /\ scraper = Some(JinaNBA2KScraper(jina_api_key).self)
    /\ loading_msg = None
    /\ parse_calls = <<>>

Init ==
    /\ pc = "idle"
    /\ player_name = <<>>
    /\ idx = 0
    /\ attempts = <<>>
    /\ sleeps = 0
    /\ result = <<>>
    /\ PureIdle
    /\ ScraperReady

\* the call: url_patterns is built and the loop starts at its first element
CallSearch(name) ==
    /\ pc = "idle"
    /\ pc' = "fetch"
    /\ player_name' = name
    /\ idx' = 1
    /\ UNCHANGED <<attempts, sleeps, result, fn, doc, out>>
    /\ UNCHANGED <<jina_api_key, scraper, loading_msg, parse_calls>>

\* one pass of the loop body up to the delay: scrape_url on the candidate, and
\* on a text parse_player_page and the return of the record
Attempt(resp) ==
    /\ pc = "fetch"
    /\ LET url_pattern  == url_patterns(player_name)[idx]
           html_content == scrape_url(resp)
           player_data  == parse_player_page(html_content[1], url_pattern)
       IN  /\ attempts' = Append(attempts,
                              [url      |-> url_pattern,
                               jina_url |-> jina_url_of(url_pattern),
                               resp     |-> resp])
           /\ IF truthy(html_content)
              THEN /\ parse_calls' =
                         Append(parse_calls, [html_content |-> html_content[1],
                                              url          |-> url_pattern])
                   /\ IF player_data # None
                      THEN pc' = "done" /\ result' = <<player_data[1]>>
                      ELSE pc' = "sleep" /\ UNCHANGED result
              ELSE pc' = "sleep" /\ UNCHANGED <<result, parse_calls>>
    /\ UNCHANGED <<player_name, idx, sleeps, fn, doc, out>>
    /\ UNCHANGED <<jina_api_key, scraper, loading_msg>>

\* time.sleep(1) at the end of the loop body, then the next candidate, or
\* `return []` after the last one
Sleep ==
    /\ pc = "sleep"
    /\ sleeps' = sleeps + 1
    /\ IF idx < Len(url_patterns(player_name))
       THEN pc' = "fetch" /\ idx' = idx + 1 /\ UNCHANGED result
       ELSE pc' = "done" /\ result' = <<>> /\ UNCHANGED idx
    /\ UNCHANGED <<player_name, attempts, fn, doc, out>>
    /\ UNCHANGED <<jina_api_key, scraper, loading_msg, parse_calls>>

Next ==
    \/ \E name \in PlayerNames : CallSearch(name)
    \/ \E resp \in Responses : Attempt(resp)
    \/ Sleep

Spec == Init /\ [][Next]_vars

\* The fetch ends within its timeout and the delay ends: the search goes on.
FairSpec == Spec /\ WF_vars(Next)

(***************************************************************************)
(* Properties of the search.                                               *)
(***************************************************************************)
FetchFailed(a) == a.resp.kind # "response" \/ a.resp.status_code # 200

EmptyBody(a) ==
    a.resp.kind = "response" /\ a.resp.status_code = 200 /\ a.resp.text = <<>>

GotDocument(a) ==
    a.resp.kind = "response" /\ a.resp.status_code = 200 /\ a.resp.text # <<>>

CandidatePaths == <<"/", "/player/", "/players/">>

Slug == [i \in 1..Len(player_name) |->
            CASE player_name[i] = " " -> "-"
              [] player_name[i] = "L" -> "l"
              [] player_name[i] = "J" -> "j"
              [] OTHER -> player_name[i]]

Returned == pc = "done" /\ result # <<>>

\* C1: the candidates are fetched one at a time in the order <base>/<slug>,
\* <base>/player/<slug>, <base>/players/<slug>; no candidate is fetched after
\* one that gave a record; the record returned is the one built from the last
\* fetched candidate; and a search that ended without a record has tried all
\* three candidates, so a failed fetch never ends it early.
C1_OrderedFirstSuccess ==
    /\ Len(attempts) <= Len(CandidatePaths)
    /\ \A i \in 1..Len(attempts) :
          /\ attempts[i].url =
                 <<"https://www.2kratings.com", CandidatePaths[i]>> \o Slug
          /\ i < Len(attempts) => ~GotDocument(attempts[i])
    /\ pc = "fetch" => Len(attempts) = idx - 1
    /\ Returned =>
          /\ GotDocument(attempts[Len(attempts)])
          /\ result = parse_player_page(attempts[Len(attempts)].resp.text,
                                        attempts[Len(attempts)].url)
    /\ (pc = "done" /\ ~Returned) => Len(attempts) = Len(CandidatePaths)
    /\ (pc = "done" /\ FetchFailed(attempts[Len(attempts)]))
          => Len(attempts) = Len(CandidatePaths)

\* the third candidate gave the record after a transport error and a 404
C1_Witness ==
    /\ Returned
    /\ Len(attempts) = 3
    /\ attempts[1].resp.kind = "Timeout"
    /\ attempts[2].resp.status_code = 404
    /\ result[1].url = <<"https://www.2kratings.com", "/players/", "l", "-">>

\* C2: when every fetch of the search failed (non-200 status, transport error
\* or timeout), the search ends, and it ends with the empty result, never with
\* a record.
C2_AllFetchesFailState ==
    (pc = "done" /\ \A i \in 1..Len(attempts) : FetchFailed(attempts[i]))
        => (result = <<>> /\ Len(attempts) = 3)

C2_AllFetchesFail ==
    /\ []C2_AllFetchesFailState
    /\ (pc \in {"fetch", "sleep"}) ~> (pc = "done")

C2_Witness ==
    /\ pc = "done"
    /\ result = <<>>
    /\ Len(attempts) = 3
    /\ attempts[1].resp.status_code = 500
    /\ attempts[2].resp.kind = "ConnectionError"
    /\ attempts[3].resp.kind = "Timeout"

\* the record holds nothing but the defaults
DefaultRecord(r) ==
    /\ r.name = <<"Unknown Player">>
    /\ r.overall_rating = None
    /\ r.attributes = <<>>
    /\ r.badge_info.total_badges = 0
    /\ r.badge_info.individual_badges = <<>>

\* C3 as stated: a fetched document that yields no identity, rating,
\* attributes or badges is never the one a record is returned for.
C3_ParseEmptyContinues == Returned => ~DefaultRecord(result[1])

\* C3 amended: a 200 response with an empty body gives no record and the search
\* goes on to the next candidate; a non-empty document always ends the search
\* with a record for its candidate, and that record holds the defaults when the
\* document has nothing to extract.
ExtractionMarks ==
    {"Title:", "Overall 2K Rating of", "####", "[NBA 2K25 Badges]",
     "legendary-sum.png)", "hof-sum.png)", "gold-sum.png)", "silver-sum.png)",
     "bronze-sum.png)"}

C3_EmptyBodyContinues ==
    \A i \in 1..Len(attempts) :
        /\ EmptyBody(attempts[i]) =>
              /\ ~(Returned /\ i = Len(attempts))
              /\ pc = "fetch" => idx > i
              /\ (pc = "done" /\ i < 3) => Len(attempts) > i
        /\ GotDocument(attempts[i]) =>
              /\ Returned
              /\ i = Len(attempts)
              /\ result[1].url = attempts[i].url
              /\ (\A k \in 1..Len(attempts[i].resp.text) :
                      attempts[i].resp.text[k] \notin ExtractionMarks)
                    => DefaultRecord(result[1])

\* an empty body at the first candidate, then a page with nothing to extract
C3_Witness ==
    /\ Returned
    /\ Len(attempts) = 2
    /\ EmptyBody(attempts[1])
    /\ attempts[2].resp.text = NotFoundDoc
    /\ DefaultRecord(result[1])

(***************************************************************************)
(* extract_badge_info_from_markdown applied to a set of documents.         *)
(***************************************************************************)
MaxTierCount == 1

MaxBlocks == 6

\* the decimal numeral of n, as str(n) writes it
RECURSIVE numeral_of(_)
numeral_of(n) ==
    IF n < 10
    THEN <<CHOOSE d \in Digits : DigitVal(d) = n>>
    ELSE numeral_of(n \div 10) \o <<CHOOSE d \in Digits : DigitVal(d) = n % 10>>

\* a tier-count image followed by its count; n = -1: the image is absent
TierImage(sum_png, n) ==
    IF n = -1 THEN <<>>
    ELSE <<"![Image", sum_png>> \o numeral_of(n) \o <<"\n", "\n">>

\* the k-th badge block of a document: heading, category, one or two lines
BadgeBlock(k) ==
    <<"####", " ", "Badge">> \o numeral_of(k) \o
    <<"\n", "\n", IF k % 2 = 0 THEN "Defense" ELSE "Shooting", "\n", "text">>
    \o (IF k % 2 = 0 THEN <<"\n", "text">> ELSE <<>>)

RECURSIVE BadgeBlocks(_)
BadgeBlocks(m) ==
    IF m = 0 THEN <<>>
    ELSE IF m = 1 THEN BadgeBlock(1)
    ELSE BadgeBlocks(m - 1) \o <<"\n", "\n">> \o BadgeBlock(m)

BadgeTails == {"end", "viewall", "hotzones"}

BadgeTail(tail) ==
    CASE tail = "end" -> <<>>
      [] tail = "viewall" -> <<"\n", "\n", "[View All Badges]", "\n">>
      [] tail = "hotzones" -> <<"\n", "\n", "NBA 2K25 Hot Zones", "\n">>

\* a line that states a total of its own, and one category count
BadgeHeader ==
    <<"Total Badges:", " ", "9", "\n", "Outside Scoring", " ", "(", "4", ")",
      "\n", "\n">>

BadgeDoc(l, h, g, s, b, marker, m, tail) ==
    BadgeHeader
    \o TierImage("legendary-sum.png)", l) \o TierImage("hof-sum.png)", h)
    \o TierImage("gold-sum.png)", g) \o TierImage("silver-sum.png)", s)
    \o TierImage("bronze-sum.png)", b)
    \o (IF marker THEN <<"[NBA 2K25 Badges]", "\n", "\n">> ELSE <<>>)
    \o BadgeBlocks(m) \o BadgeTail(tail)

TierChoices == (-1)..MaxTierCount

BadgeDocs ==
    {BadgeDoc(l, h, g, s, b, marker, m, tail) :
        l \in TierChoices, h \in TierChoices, g \in TierChoices,
        s \in TierChoices, b \in TierChoices, marker \in BOOLEAN,
        m \in 0..MaxBlocks, tail \in BadgeTails}

SearchIdle ==
    /\ pc = "idle"
    /\ player_name = <<>>
    /\ idx = 0
    /\ attempts = <<>>
    /\ sleeps = 0
    /\ result = <<>>
    /\ ScraperReady

InitBadges ==
    /\ SearchIdle
    /\ fn = "extract_badge_info_from_markdown"
    /\ doc \in BadgeDocs
    /\ out = None

ExtractBadgeInfo ==
    /\ fn = "extract_badge_info_from_markdown"
    /\ out = None
    /\ out' = Some(extract_badge_info_from_markdown(doc))
    /\ UNCHANGED <<pc, player_name, idx, attempts, sleeps, result, fn, doc>>
    /\ UNCHANGED <<jina_api_key, scraper, loading_msg, parse_calls>>

NextBadges == ExtractBadgeInfo

SpecBadges == InitBadges /\ [][NextBadges]_vars

(***************************************************************************)
(* Properties of the badge summary.                                        *)
(***************************************************************************)
BadgeInfo == out[1]

BadgesExtracted == fn = "extract_badge_info_from_markdown" /\ out # None

\* the number written after the first image of a tier, read off the document
\* (every image of these documents is followed by its count); 0 without image
WrittenCount(sum_png) ==
    IF \E p \in 1..Len(doc) : doc[p] = sum_png
    THEN LET p == CHOOSE q \in 1..Len(doc) :
                      doc[q] = sum_png /\ \A j \in 1..(q - 1) : doc[j] # sum_png
             e == CHOOSE q \in (p + 1)..Len(doc) :
                      doc[q] = "\n" /\ \A j \in (p + 1)..(q - 1) : doc[j] # "\n"
         IN  int(SubSeq(doc, p + 1, e - 1))
    ELSE 0

WrittenTotal ==
    WrittenCount("legendary-sum.png)") + WrittenCount("hof-sum.png)")
    + WrittenCount("gold-sum.png)") + WrittenCount("silver-sum.png)")
    + WrittenCount("bronze-sum.png)")

MarkerPresent == \E p \in 1..Len(doc) : doc[p] = "[NBA 2K25 Badges]"

\* the badge blocks of the document that the pattern matches: all the blocks
\* written, but the last one when the Hot Zones text cuts the section after it
MatchedBlocks ==
    LET written == Cardinality({p \in 1..Len(doc) : doc[p] = "####"})
    IN  IF ~MarkerPresent THEN 0
        ELSE IF written > 0 /\ \E p \in 1..Len(doc) : doc[p] = "NBA 2K25 Hot Zones"
             THEN written - 1
        ELSE written

\* C4: total_badges is the sum of the five tier counts of the summary, each
\* tier count is the number written after its image and 0 when the image is
\* absent, and the total stated in the text of the document is not used.
C4_TotalIsSum ==
    BadgesExtracted =>
        /\ BadgeInfo.total_badges =
               BadgeInfo.legendary_badges + BadgeInfo.hof_badges
               + BadgeInfo.gold_badges + BadgeInfo.silver_badges
               + BadgeInfo.bronze_badges
        /\ BadgeInfo.legendary_badges = WrittenCount("legendary-sum.png)")
        /\ BadgeInfo.hof_badges = WrittenCount("hof-sum.png)")
        /\ BadgeInfo.gold_badges = WrittenCount("gold-sum.png)")
        /\ BadgeInfo.silver_badges = WrittenCount("silver-sum.png)")
        /\ BadgeInfo.bronze_badges = WrittenCount("bronze-sum.png)")

\* legendary and gold images present, the three others absent
C4_Witness ==
    /\ BadgesExtracted
    /\ BadgeInfo.legendary_badges = 1
    /\ BadgeInfo.gold_badges = 1
    /\ BadgeInfo.total_badges = 2
    /\ \A p \in 1..Len(doc) :
          doc[p] \notin {"hof-sum.png)", "silver-sum.png)", "bronze-sum.png)"}
    /\ \E p \in 1..Len(doc) : doc[p] = "Total Badges:"

\* C5: individual_badges has exactly min(m, t) entries, m the number of matched
\* badge blocks and t the sum of the tier counts, and they are the first
\* min(m, t) blocks in document order.
C5_CappedAtTotal ==
    BadgesExtracted =>
        /\ MarkerPresent =>
               Len(badge_findall(badge_section_of(doc), 1)) = MatchedBlocks
        /\ Len(BadgeInfo.individual_badges) = Min(MatchedBlocks, WrittenTotal)
        /\ Len(BadgeInfo.individual_badges) <= BadgeInfo.total_badges
        /\ \A i \in 1..Len(BadgeInfo.individual_badges) :
              BadgeInfo.individual_badges[i].name = <<"Badge">> \o numeral_of(i)

\* five matched blocks and three counted badges: the list stops at three
C5_Witness ==
    /\ BadgesExtracted
    /\ MatchedBlocks = 5
    /\ BadgeInfo.total_badges = 3
    /\ Len(BadgeInfo.individual_badges) = 3

\* C6: the badge at 0-based index i has the tier given by the cumulative
\* thresholds of the counts (L, H, G, S, B), whatever its text.
TierAt(i, L, H, G, S, B) ==
    CASE i < L -> "Legendary"
      [] L <= i /\ i < L + H -> "Hall of Fame"
      [] L + H <= i /\ i < L + H + G -> "Gold"
      [] L + H + G <= i /\ i < L + H + G + S -> "Silver"
      [] L + H + G + S <= i /\ i < L + H + G + S + B -> "Bronze"

C6_PositionalTiers ==
    BadgesExtracted =>
        \A i \in 1..Len(BadgeInfo.individual_badges) :
            BadgeInfo.individual_badges[i].quality =
                TierAt(i - 1, WrittenCount("legendary-sum.png)"),
                       WrittenCount("hof-sum.png)"),
                       WrittenCount("gold-sum.png)"),
                       WrittenCount("silver-sum.png)"),
                       WrittenCount("bronze-sum.png)"))

\* one badge of each tier, in tier order
C6_Witness ==
    /\ BadgesExtracted
    /\ Len(BadgeInfo.individual_badges) = 5
    /\ BadgeInfo.individual_badges[1].quality = "Legendary"
    /\ BadgeInfo.individual_badges[2].quality = "Hall of Fame"
    /\ BadgeInfo.individual_badges[3].quality = "Gold"
    /\ BadgeInfo.individual_badges[4].quality = "Silver"
    /\ BadgeInfo.individual_badges[5].quality = "Bronze"

\* C7 as stated: a matched block whose index is beyond the sum of the tier
\* counts is in the result with tier "Unknown".
C7_OverflowIsUnknown ==
    BadgesExtracted =>
        \A i \in 1..MatchedBlocks :
            i > WrittenTotal =>
                /\ Len(BadgeInfo.individual_badges) >= i
                /\ BadgeInfo.individual_badges[i].quality = "Unknown"

\* C7 amended: a matched block whose index is beyond the sum of the tier
\* counts has no entry in the result, and no entry has tier "Unknown".
C7_OverflowIsDropped ==
    BadgesExtracted =>
        /\ \A i \in 1..MatchedBlocks :
              i > WrittenTotal =>
                  \A k \in 1..Len(BadgeInfo.individual_badges) :
                      BadgeInfo.individual_badges[k].name
                          # <<"Badge">> \o numeral_of(i)
        /\ \A k \in 1..Len(BadgeInfo.individual_badges) :
              BadgeInfo.individual_badges[k].quality # "Unknown"

\* six matched blocks, two counted badges
C7_Witness ==
    /\ BadgesExtracted
    /\ MatchedBlocks = 6
    /\ WrittenTotal = 2
    /\ Len(BadgeInfo.individual_badges) = 2

\* C8: without the section marker individual_badges is empty, and the tier
\* counts, the total and the breakdown are what the document states and what
\* they are on the same document with the marker put in front of it.
C8_CountsWithoutMarker ==
    (BadgesExtracted /\ ~MarkerPresent) =>
        LET with == extract_badge_info_from_markdown(
                        <<"[NBA 2K25 Badges]", "\n", "\n">> \o doc)
        IN  /\ BadgeInfo.individual_badges = <<>>
            /\ BadgeInfo.legendary_badges = with.legendary_badges
            /\ BadgeInfo.hof_badges = with.hof_badges
            /\ BadgeInfo.gold_badges = with.gold_badges
            /\ BadgeInfo.silver_badges = with.silver_badges
            /\ BadgeInfo.bronze_badges = with.bronze_badges
            /\ BadgeInfo.total_badges = with.total_badges
            /\ BadgeInfo.badge_breakdown = with.badge_breakdown
            /\ BadgeInfo.total_badges = WrittenTotal
            /\ BadgeInfo.badge_breakdown = [c \in {"Outside Scoring"} |-> 4]

\* no marker, three badge blocks in the text, four counted badges
C8_Witness ==
    /\ BadgesExtracted
    /\ ~MarkerPresent
    /\ Cardinality({p \in 1..Len(doc) : doc[p] = "####"}) = 3
    /\ BadgeInfo.total_badges = 4
    /\ BadgeInfo.individual_badges = <<>>

(***************************************************************************)
(* extract_attributes_from_markdown applied to a set of documents: one     *)
(* category heading, a list item whose numeral part ranges over the texts  *)
(* of NumeralAtoms, and a second list item.                                *)
(***************************************************************************)
MaxNumeralLen == 4

NumeralAtoms == {"9", "8", "1", "+", "-", " "}

AttrDoc(t) ==
    <<"####", " ", "9", "1", "-", "1", " ", "Outside Scoring", "\n", "\n",
      "*", " ", " ", " ">> \o t \o
    <<" ", "Close Shot", "\n", "*", " ", " ", " ", "7", " ", "Layup", "\n">>

AttrDocs == {AttrDoc(t) : t \in SeqsUpTo(NumeralAtoms, MaxNumeralLen)}

InitAttrs ==
    /\ SearchIdle
    /\ fn = "extract_attributes_from_markdown"
    /\ doc \in AttrDocs
    /\ out = None

ExtractAttributes ==
    /\ fn = "extract_attributes_from_markdown"
    /\ out = None
    /\ out' = Some(extract_attributes_from_markdown(doc))
    /\ UNCHANGED <<pc, player_name, idx, attempts, sleeps, result, fn, doc>>
    /\ UNCHANGED <<jina_api_key, scraper, loading_msg, parse_calls>>

NextAttrs == ExtractAttributes

SpecAttrs == InitAttrs /\ [][NextAttrs]_vars

AttrsExtracted == fn = "extract_attributes_from_markdown" /\ out # None

\* the sub-attribute entries of all the categories of the result
SubAttributeEntries ==
    UNION {{out[1][c].sub_attributes[i] :
               i \in 1..Len(out[1][c].sub_attributes)} : c \in DOMAIN out[1]}

\* the text is a numeral: digits, then possibly a sign and digits
IsNumeralToken(raw) ==
    /\ raw # <<>>
    /\ raw[1] \in Digits
    /\ \A i \in 1..Len(raw) : raw[i] \in Digits \cup Signs
    /\ Cardinality({i \in 1..Len(raw) : raw[i] \in Signs}) <= 1
    /\ raw[Len(raw)] \in Digits

\* the text stands in the document between blanks
Verbatim(raw) ==
    \E p \in 2..(Len(doc) - Len(raw)) :
        /\ SubSeq(doc, p, p + Len(raw) - 1) = raw
        /\ doc[p - 1] \in Whitespace
        /\ doc[p + Len(raw)] \in Whitespace

\* the digits of the text before its sign
LeadingNumeral(raw) ==
    IF \E i \in 1..Len(raw) : raw[i] \in Signs
    THEN SubSeq(raw, 1, (CHOOSE i \in 1..Len(raw) : raw[i] \in Signs) - 1)
    ELSE raw

\* C9: in every sub-attribute entry raw_value is the numeral token of the list
\* item as it stands in the document, modifier included, and value is the
\* integer of its leading numeral; the modifier does not change value.
C9_ValueIsLeadingNumeral ==
    AttrsExtracted =>
        \A e \in SubAttributeEntries :
            /\ IsNumeralToken(e.raw_value)
            /\ Verbatim(e.raw_value)
            /\ e.value = int(LeadingNumeral(e.raw_value))

\* raw "98+1" gives value 98
C9_Witness ==
    /\ AttrsExtracted
    /\ \E e \in SubAttributeEntries :
          /\ e.name = <<"Close Shot">>
          /\ e.raw_value = <<"9", "8", "+", "1">>
          /\ e.value = 98

(***************************************************************************)
(* parse_player_page applied to documents made of the texts of the five    *)
(* data groups, each absent (0) or present in one of two forms (1, 2).     *)
(***************************************************************************)
GroupForms == 0..2

TitleText(k) ==
    CASE k = 0 -> <<>>
      [] k = 1 -> <<"Title:", " ", "Nikola Jokic", " ",
                    "NBA 2K25 Rating (Current", " ", "Denver Nuggets", ")", "\n">>
      [] k = 2 -> <<"Title:", " ", "Nikola Jokic", "\n">>

RatingText(k) ==
    CASE k = 0 -> <<>>
      [] k = 1 -> <<"Nikola Jokic", " ", "Overall 2K Rating of", " ", "9", "7",
                    "\n">>
      [] k = 2 -> <<"Overall 2K Rating of", " ", "1", "0", "0", "\n">>

DetailsText(k) ==
    CASE k = 0 -> <<>>
      [] k = 1 -> <<"Position:", " ", "[", "C", "]", "\n", "Team:", " ", "[",
                    "Denver Nuggets", "]", "\n", "Height:", " ", "text", "\n",
                    "Archetype:", " ", "text", "\n">>
      [] k = 2 -> <<"Height:", " ", "text", "\n", "Weight:", " ", "text", "\n",
                    "Wingspan:", " ", "text", "\n">>

AttributesText(k) ==
    CASE k = 0 -> <<>>
      [] k = 1 -> <<"####", " ", "9", "1", "-", "1", " ", "Outside Scoring",
                    "\n", "\n", "*", " ", "9", "9", " ", "Close Shot", "\n",
                    "*", " ", "9", "8", "+", "1", " ", "Mid-Range Shot", "\n",
                    "\n", "####", " ", "7", "8", " ", "Athleticism", "\n", "\n",
                    "*", " ", "7", "8", " ", "Layup", "\n", "\n">>
      [] k = 2 -> <<"####", " ", "8", "8", " ", "Defense", "\n", "\n">>

BadgesText(k) ==
    CASE k = 0 -> <<>>
      [] k = 1 -> BadgeDoc(1, 1, -1, 0, 1, TRUE, 4, "viewall")
      [] k = 2 -> BadgeDoc(-1, 2, 1, -1, -1, TRUE, 2, "hotzones")

Filler(f) == IF f THEN <<"text", "\n">> ELSE <<>>

ParseDoc(f, t, r, d, a, b) ==
    Filler(f) \o TitleText(t) \o RatingText(r) \o DetailsText(d)
    \o AttributesText(a) \o BadgesText(b)

ParseDocs ==
    {ParseDoc(f, t, r, d, a, b) :
        f \in BOOLEAN, t \in GroupForms, r \in GroupForms, d \in GroupForms,
        a \in GroupForms, b \in GroupForms} \ {<<>>}

PageUrl == <<"file://", "page">>

InitParse ==
    /\ SearchIdle
    /\ fn = "parse_player_page"
    /\ doc \in ParseDocs
    /\ out = None

ParsePlayerPage ==
    /\ fn = "parse_player_page"
    /\ out = None
    /\ out' = parse_player_page(doc, PageUrl)
    /\ parse_calls' = Append(parse_calls, [html_content |-> doc, url |-> PageUrl])
    /\ UNCHANGED <<pc, player_name, idx, attempts, sleeps, result, fn, doc>>
    /\ UNCHANGED <<jina_api_key, scraper, loading_msg>>

NextParse == ParsePlayerPage

SpecParse == InitParse /\ [][NextParse]_vars

PageParsed == fn = "parse_player_page" /\ out # None

\* the record of the document that has the form k of one group and the form 1
\* of every other group
FullRecord(t, r, d, a, b) ==
    parse_player_page(ParseDoc(TRUE, IF t = 0 THEN 1 ELSE t,
                               IF r = 0 THEN 1 ELSE r, IF d = 0 THEN 1 ELSE d,
                               IF a = 0 THEN 1 ELSE a, IF b = 0 THEN 1 ELSE b),
                      PageUrl)[1]

EmptyBadgeInfo ==
    [total_badges |-> 0, hof_badges |-> 0, gold_badges |-> 0,
     silver_badges |-> 0, bronze_badges |-> 0, legendary_badges |-> 0,
     badge_breakdown |-> <<>>, individual_badges |-> <<>>]

\* C10: every non-empty document gives a record; a group that is absent from
\* the document has its empty default in the record, and a group that is
\* present has the value it has in the document where all groups are present.
C10_GroupsIndependent ==
    PageParsed =>
        \A f \in BOOLEAN, t \in GroupForms, r \in GroupForms, d \in GroupForms,
           a \in GroupForms, b \in GroupForms :
            doc = ParseDoc(f, t, r, d, a, b) =>
                /\ out[1].url = PageUrl
                /\ out[1].name =
                       (IF t = 0 THEN <<"Unknown Player">>
                        ELSE FullRecord(t, 1, 1, 1, 1).name)
                /\ out[1].overall_rating =
                       (IF r = 0 THEN None
                        ELSE FullRecord(1, r, 1, 1, 1).overall_rating)
                /\ out[1].player_details =
                       (IF d = 0 THEN <<>>
                        ELSE FullRecord(1, 1, d, 1, 1).player_details)
                /\ out[1].attributes =
                       (IF a = 0 THEN <<>>
                        ELSE FullRecord(1, 1, 1, a, 1).attributes)
                /\ out[1].badge_info =
                       (IF b = 0 THEN EmptyBadgeInfo
                        ELSE FullRecord(1, 1, 1, 1, b).badge_info)
                /\ (t = 1 /\ r = 1) =>
                       /\ out[1].name = <<"Nikola Jokic", " ", "Denver Nuggets">>
                       /\ out[1].overall_rating = Some(97)

\* the document with only a title and the rating phrase
C10_Witness ==
    /\ PageParsed
    /\ doc = TitleText(1) \o RatingText(1)
    /\ out[1].overall_rating = Some(97)
    /\ out[1].name = <<"Nikola Jokic", " ", "Denver Nuggets">>
    /\ out[1].attributes = <<>>
    /\ out[1].player_details = <<>>
    /\ out[1].badge_info = EmptyBadgeInfo

(***************************************************************************)
(* The bot (src/bot/main.py): the scraper is constructed when the module   *)
(* is loaded, then the !player command is served.  A call that can raise   *)
(* gives [exc, val]: exc names the exception ("" for none), val holds the  *)
(* return value.  The pictographs of the texts are left out.               *)
(***************************************************************************)
\* get_rating_color: `None >= 95` raises TypeError
get_rating_color(rating) ==
    IF rating = None THEN [exc |-> "TypeError", val |-> <<>>]
    ELSE IF rating[1] >= 95 THEN [exc |-> "", val |-> <<16766720>>]
    ELSE IF rating[1] >= 90 THEN [exc |-> "", val |-> <<12632256>>]
    ELSE IF rating[1] >= 85 THEN [exc |-> "", val |-> <<13467442>>]
    ELSE [exc |-> "", val |-> <<8421504>>]

\* details.get(key, 'N/A')
details_get(details, key) ==
    IF key \in DOMAIN details THEN details[key] ELSE <<"N/A">>

\* the fields added to the embed, in the order of the add_field calls
embed_fields(player) ==
    (IF player.player_details # <<>>
     THEN <<[name  |-> "Player Info",
             value |-> [Position  |-> details_get(player.player_details, "position"),
                        Team      |-> details_get(player.player_details, "team"),
                        Height    |-> details_get(player.player_details, "height"),
                        Weight    |-> details_get(player.player_details, "weight"),
                        Wingspan  |-> details_get(player.player_details, "wingspan"),
                        Archetype |-> details_get(player.player_details, "archetype")]]>>
     ELSE <<>>)
    \o
    (IF player.attributes # <<>>
     THEN <<[name  |-> "Attributes",
             value |-> [attr \in DOMAIN player.attributes |->
                           player.attributes[attr].rating]]>>
     ELSE <<>>)
    \o
    <<[name  |-> "Badges",
       value |-> [Total  |-> player.badge_info.total_badges,
                  HOF    |-> player.badge_info.hof_badges,
                  Gold   |-> player.badge_info.gold_badges,
                  Silver |-> player.badge_info.silver_badges,
                  Bronze |-> player.badge_info.bronze_badges]]>>

\* create_player_embed: the arguments of discord.Embed are evaluated first,
\* get_rating_color among them
create_player_embed(player) ==
    LET color == get_rating_color(player.overall_rating)
    IN  IF color.exc # ""
        THEN [exc |-> color.exc, val |-> <<>>]
        ELSE [exc |-> "",
              val |-> <<[title       |-> player.name,
                         description |-> <<"Overall Rating:">>
                                             \o player.overall_rating,
                         color       |-> color.val[1],
                         fields      |-> embed_fields(player),
                         footer      |-> "Data from 2kratings.com"]>>]

\* a message of the channel: its content and its embed (None without one)
Message(content, embed) == Some([content |-> content, embed |-> embed])

\* os.getenv('JINA_API_KEY'): unset, set to the empty text, or set to a key
ApiKeys == {None, Some(""), Some("jina-key")}

InitBot ==
    /\ pc = "start"
    /\ player_name = <<>>
    /\ idx = 0
    /\ attempts = <<>>
    /\ sleeps = 0
    /\ result = <<>>
    /\ PureIdle
    /\ jina_api_key \in ApiKeys
    /\ scraper = None
    /\ loading_msg = None
    /\ parse_calls = <<>>

\* main.py line 30, `scraper = JinaNBA2KScraper()`: the ValueError is not
\* caught, the module is not loaded and the process ends ("aborted")
Startup ==
    /\ pc = "start"
    /\ LET made == JinaNBA2KScraper(jina_api_key)
       IN  IF made.exc # ""
           THEN pc' = "aborted" /\ UNCHANGED scraper
           ELSE pc' = "idle" /\ scraper' = Some(made.self)
    /\ UNCHANGED <<player_name, idx, attempts, sleeps, result, fn, doc, out,
                   jina_api_key, loading_msg, parse_calls>>

\* player_search up to the call of scraper.search_player
PlayerCommand(name) ==
    /\ pc = "idle"
    /\ scraper # None
    /\ IF strip(name) = <<>>
       THEN /\ loading_msg' = Message("Please provide a player name", None)
            /\ pc' = "replied"
            /\ UNCHANGED <<player_name, idx>>
       ELSE /\ loading_msg' = Message("Searching for", None)
            /\ pc' = "fetch"
            /\ player_name' = name
            /\ idx' = 1
    /\ UNCHANGED <<attempts, sleeps, result, fn, doc, out, jina_api_key,
                   scraper, parse_calls>>

\* player_search from the return of scraper.search_player on
ShowResult ==
    /\ pc = "done"
    /\ loading_msg # None
    /\ pc' = "replied"
    /\ LET players == result
           embed   == create_player_embed(players[1])
       IN  IF players = <<>>
           THEN loading_msg' = Message("No player found for", None)
           ELSE IF embed.exc # ""
                THEN loading_msg' = Message("Error searching for player", None)
                ELSE loading_msg' = Message("", embed.val)
    /\ UNCHANGED <<player_name, idx, attempts, sleeps, result, fn, doc, out,
                   jina_api_key, scraper, parse_calls>>

NextBot ==
    \/ Startup
    \/ \E name \in PlayerNames : PlayerCommand(name)
    \/ \E resp \in Responses : Attempt(resp)
    \/ Sleep
    \/ ShowResult

SpecBot == InitBot /\ [][NextBot]_vars

(***************************************************************************)
(* Properties of the bot.                                                  *)
(***************************************************************************)
Replied == pc = "replied" /\ loading_msg # None

EmbedShown == Replied /\ loading_msg[1].embed # None

\* C11: whenever search_player returned a record, whatever fields of it other
\* than name and url are absent or empty, the !player command ends with the
\* embed of that record on display, not with an error message.
C11_OptionalFieldsDisplayed ==
    (Replied /\ result # <<>>) =>
        /\ EmbedShown
        /\ loading_msg[1].content = ""

\* C12: when JINA_API_KEY is unset or empty, the construction of the scraper
\* raises, there is never a scraper object, the process does not get past the
\* start, and no candidate is ever fetched and no command served.
C12_MissingKeyIsFatal ==
    (jina_api_key = None \/ jina_api_key = Some("")) =>
        /\ pc \in {"start", "aborted"}
        /\ scraper = None
        /\ attempts = <<>>
        /\ loading_msg = None

\* the start with the key set to the empty text has aborted
C12_Witness ==
    /\ jina_api_key = Some("")
    /\ pc = "aborted"
    /\ scraper = None

(***************************************************************************)
(* test_with_local_file, and the two ways a record is made.                *)
(***************************************************************************)
\* what open(file_path).read() does: it gives the text of the file (kind
\* "file") or raises
FileErrors == {"FileNotFoundError", "UnicodeDecodeError"}

LocalFiles ==
    [kind : {"file"}, text : SearchDocs \cup {<<>>}]
    \cup [kind : FileErrors, text : {<<>>}]

FilePaths == {"jokic.md"}

\* read_local_file: the content, None when reading raised
read_local_file(file) ==
    IF file.kind = "file" THEN Some(file.text) ELSE None

\* test_with_local_file without `if html_content:`, an unread file taken as
\* the empty text
test_with_local_file_unchecked(file_path, file) ==
    LET html_content == read_local_file(file)
        text         == IF html_content = None THEN <<>> ELSE html_content[1]
        url          == <<"file://", file_path>>
    IN  [calls |-> <<[html_content |-> text, url |-> url]>>,
         ret   |-> <<parse_player_page(text, url)[1]>>]

\* test_with_local_file: the calls of parse_player_page it makes (calls) and
\* the list it returns (ret)
test_with_local_file(file_path, file) ==
    LET html_content == read_local_file(file)
        url          == <<"file://", file_path>>
        player_data  == parse_player_page(html_content[1], url)
    IN  IF truthy(html_content)
        THEN [calls |-> <<[html_content |-> html_content[1], url |-> url]>>,
              ret   |-> IF player_data # None THEN <<player_data[1]>> ELSE <<>>]
        ELSE [calls |-> <<>>, ret |-> <<>>]

\* a call of test_with_local_file on the scraper; doc keeps its arguments
TestWithLocalFile(file_path, file) ==
    /\ pc = "idle"
    /\ scraper # None
    /\ fn' = "test_with_local_file"
    /\ doc' = [file_path |-> file_path, file |-> file]
    /\ LET done == test_with_local_file(file_path, file)
       IN  /\ parse_calls' = parse_calls \o done.calls
           /\ result' = done.ret
    /\ pc' = "done"
    /\ UNCHANGED <<player_name, idx, attempts, sleeps, out, jina_api_key,
                   scraper, loading_msg>>

NextRecords ==
    \/ \E name \in PlayerNames : CallSearch(name)
    \/ \E resp \in Responses : Attempt(resp)
    \/ Sleep
    \/ \E file_path \in FilePaths, file \in LocalFiles :
           TestWithLocalFile(file_path, file)

SpecRecords == Init /\ [][NextRecords]_vars

(***************************************************************************)
(* Properties of the construction of records.                              *)
(***************************************************************************)
LocalRun == fn = "test_with_local_file"

\* the call of parse_player_page was made on the non-empty document that a
\* 200 response brought for the candidate, or that was read from the file
FromFetchedDocument(c) ==
    /\ c.html_content # <<>>
    /\ IF LocalRun
       THEN /\ doc.file.kind = "file"
            /\ doc.file.text = c.html_content
            /\ c.url = <<"file://", doc.file_path>>
       ELSE \E i \in 1..Len(attempts) :
               /\ GotDocument(attempts[i])
               /\ attempts[i].resp.text = c.html_content
               /\ attempts[i].url = c.url

\* C13: parse_player_page is invoked only on a non-empty document that was
\* fetched (or read), never for a candidate whose fetch failed or gave an empty
\* body; and a returned record is the one built by the last such call, with
\* the candidate URL (the file URL) of that document as its url.
C13_RecordFromDocument ==
    /\ \A k \in 1..Len(parse_calls) : FromFetchedDocument(parse_calls[k])
    /\ LocalRun => Len(attempts) = 0
    /\ ~LocalRun =>
          Len(parse_calls) =
              Cardinality({i \in 1..Len(attempts) : GotDocument(attempts[i])})
    /\ Returned =>
          /\ parse_calls # <<>>
          /\ LET c == parse_calls[Len(parse_calls)]
             IN  /\ Some(result[1]) = parse_player_page(c.html_content, c.url)
                 /\ result[1].url = c.url
                 /\ Len(result) = 1

\* a search whose first fetch failed and whose second gave an empty body
\* returned the record of the third candidate, after one call of the parser
C13_Witness ==
    /\ Returned
    /\ ~LocalRun
    /\ Len(attempts) = 3
    /\ FetchFailed(attempts[1])
    /\ EmptyBody(attempts[2])
    /\ Len(parse_calls) = 1
    /\ result[1].url = attempts[3].url

\* an unreadable file gives no record and no call of the parser
C13_LocalWitness ==
    /\ LocalRun
    /\ pc = "done"
    /\ doc.file.kind = "FileNotFoundError"
    /\ result = <<>>
    /\ parse_calls = <<>>

(***************************************************************************)
(* Properties of the delay of search_player.                               *)
(***************************************************************************)
\* C14: the delays lie between the attempts: when an attempt is about to be
\* made, as many delays as attempts have been taken (none before the first,
\* one after each earlier attempt), and a search that has ended after n
\* attempts, with a record or without, has taken n - 1 delays.
C14_DelaysBetweenAttempts ==
    /\ pc = "fetch" => sleeps = Len(attempts)
    /\ pc = "sleep" => sleeps = Len(attempts) - 1
    /\ pc = "done" => sleeps = Len(attempts) - 1

\* what the code does: one delay after every attempt that returned no record,
\* the last one included
DelaysAfterFailedAttempts ==
    /\ pc = "fetch" => sleeps = Len(attempts)
    /\ pc = "sleep" => sleeps = Len(attempts) - 1
    /\ (pc = "done" /\ Returned) => sleeps = Len(attempts) - 1
    /\ (pc = "done" /\ ~Returned) => sleeps = Len(attempts)

(***************************************************************************)
(* extract_attributes_from_markdown applied to documents made of lines:    *)
(* category headings, a heading-shaped line of another name, a heading     *)
(* without a rating, and list items (two of them under the same name).     *)
(***************************************************************************)
MaxParts == 4

HeadingKinds == {"outside", "defense", "shooting", "deadeye"}

ItemKinds == {"close99", "layup98", "close7"}

PartKinds == HeadingKinds \cup ItemKinds

SectionPart(k) ==
    CASE k = "outside"  -> <<"####", " ", "9", "1", "-", "1", " ",
                             "Outside Scoring", "\n">>
      [] k = "defense"  -> <<"####", " ", "8", "0", " ", "Defense", "\n">>
      [] k = "shooting" -> <<"####", " ", "7", "5", " ", "Shooting", "\n">>
      [] k = "deadeye"  -> <<"####", " ", "Deadeye", "\n">>
      [] k = "close99"  -> <<"*", " ", " ", " ", "9", "9", " ", "Close Shot",
                             "\n">>
      [] k = "layup98"  -> <<"*", " ", " ", " ", "9", "8", "+", "1", " ",
                             "Layup", "\n">>
      [] k = "close7"   -> <<"*", " ", "7", " ", "Close Shot", "\n">>

RECURSIVE SectionDoc(_)
SectionDoc(parts) ==
    IF parts = <<>> THEN <<>>
    ELSE SectionPart(Head(parts)) \o SectionDoc(Tail(parts))

SectionDocs == {SectionDoc(parts) : parts \in SeqsUpTo(PartKinds, MaxParts)}

InitSections ==
    /\ SearchIdle
    /\ fn = "extract_attributes_from_markdown"
    /\ doc \in SectionDocs
    /\ out = None

SpecSections == InitSections /\ [][NextAttrs]_vars

(***************************************************************************)
(* Properties of the scan of a category.                                   *)
(***************************************************************************)
\* the lines of the document, each with its line break
LineEnds == {i \in 0..Len(doc) : i = 0 \/ doc[i] = "\n"}

Lines ==
    LET ends == LineEnds
    IN  [k \in 1..(Cardinality(ends) - 1) |->
            LET e == CHOOSE i \in ends : Cardinality({j \in ends : j < i}) = k
                b == CHOOSE i \in ends : Cardinality({j \in ends : j < i}) = k - 1
            IN  SubSeq(doc, b + 1, e)]

\* a line that is a list item: its name, its numeral and the numeral's value
IsItem(line) == line[1] = "*"

ItemName(line) == <<line[Len(line) - 1]>>

ItemRaw(line) ==
    IF line = SectionPart("close99") THEN <<"9", "9">>
    ELSE IF line = SectionPart("layup98") THEN <<"9", "8", "+", "1">>
    ELSE <<"7">>

ItemValue(line) ==
    IF line = SectionPart("close99") THEN 99
    ELSE IF line = SectionPart("layup98") THEN 98
    ELSE 7

\* a heading-shaped line: "####", a rating, a name
HeadingShaped(line) == line[1] = "####" /\ line[3] \in Digits

\* the heading line of a category and its rating
CategoryLines == <<SectionPart("outside"), SectionPart("defense")>>

CategoryNames == <<"Outside Scoring", "Defense">>

CategoryRatings == <<91, 80>>

\* the first heading line of category c, 0 if the document has none
FirstHeading(lines, c) ==
    LET S == {k \in 1..Len(lines) : lines[k] = CategoryLines[c]}
    IN  IF S = {} THEN 0 ELSE CHOOSE k \in S : \A j \in S : k <= j

\* the items among the lines between that heading and the next heading-shaped
\* line (or the end)
SpanItems(lines, c) ==
    LET h == FirstHeading(lines, c)
        S == {k \in (h + 1)..Len(lines) : HeadingShaped(lines[k])}
        n == IF S = {} THEN Len(lines) + 1
             ELSE CHOOSE k \in S : \A j \in S : k <= j
    IN  {k \in (h + 1)..(n - 1) : IsItem(lines[k])}

\* the category's sub-attributes are the items of its span
SpanRecorded(lines, items, sub_attributes) ==
    /\ \A i \in 1..Len(sub_attributes) :
          \E k \in items :
              /\ sub_attributes[i].name = ItemName(lines[k])
              /\ sub_attributes[i].raw_value = ItemRaw(lines[k])
              /\ sub_attributes[i].value = ItemValue(lines[k])
    /\ \A k \in items :
          \E i \in 1..Len(sub_attributes) :
              /\ sub_attributes[i].name = ItemName(lines[k])
              /\ \E m \in items :
                    /\ ItemName(lines[m]) = ItemName(lines[k])
                    /\ \A j \in items :
                          ItemName(lines[j]) = ItemName(lines[k]) => j <= m
                    /\ sub_attributes[i].raw_value = ItemRaw(lines[m])
    /\ Len(sub_attributes) = Cardinality({ItemName(lines[k]) : k \in items})

\* C15: a category is in the result exactly when the document has its heading,
\* with the rating of its first heading; its sub-attributes are the list items
\* of the lines between that heading and the next heading-shaped line (or the
\* end of the document): every entry comes from an item of the span, never
\* from an item beyond the next heading; every item of the span has its name
\* recorded, with the numeral of the last item of the span under that name;
\* and a span without items gives the empty mapping.
C15_ScanIsBounded ==
    AttrsExtracted =>
        LET lines == Lines
        IN  /\ DOMAIN out[1] =
                   {CategoryNames[c] :
                       c \in {d \in 1..2 : FirstHeading(lines, d) # 0}}
            /\ \A c \in 1..2 :
                  FirstHeading(lines, c) # 0 =>
                      /\ out[1][CategoryNames[c]].rating = CategoryRatings[c]
                      /\ SpanRecorded(lines, SpanItems(lines, c),
                                      out[1][CategoryNames[c]].sub_attributes)

\* an item after the next heading is recorded under that heading's category
\* only, and a category whose span has no item has the empty mapping
C15_Witness ==
    /\ AttrsExtracted
    /\ doc = SectionDoc(<<"outside", "close99", "defense", "layup98">>)
    /\ out[1]["Outside Scoring"].sub_attributes =
           <<[name |-> <<"Close Shot">>, value |-> 99, raw_value |-> <<"9", "9">>]>>
    /\ out[1]["Defense"].sub_attributes =
           <<[name |-> <<"Layup">>, value |-> 98,
              raw_value |-> <<"9", "8", "+", "1">>]>>

\* a heading directly followed by a heading: the category is recorded with its
\* rating and no sub-attributes
C15_EmptySpanWitness ==
    /\ AttrsExtracted
    /\ doc = SectionDoc(<<"outside", "shooting", "close99">>)
    /\ out[1]["Outside Scoring"] = [rating |-> 91, sub_attributes |-> <<>>]
====
